---- MODULE Spec2Model ----
(***************************************************************************)
(* learner_progress: the forum application (src/app.py) and the work        *)
(* sample submission portal (src/main.py), each as a state machine whose    *)
(* steps are the script runs Streamlit makes for one user interaction.      *)
(***************************************************************************)
EXTENDS Integers, Sequences, FiniteSets, TLC

VARIABLES
    \* ---- forum (src/app.py) ----
    topics,             \* rows of the hosted table topics
    posts,              \* rows of the hosted table posts
    db_clock,           \* the store's clock: created_at of the next insert
    current_view,       \* st.session_state.current_view
    selected_topic_id,  \* st.session_state.selected_topic_id
    username,           \* st.session_state.username
    topics_data,        \* what load_forum_data returned in the last run
    page,               \* what the last script run rendered and called
    rerun_pending,      \* st.rerun() was called: the script runs again
    submitted,          \* history: topic id -> the posts the forms saved for it, in order
    \* ---- submission portal (src/main.py) ----
    csv_file,           \* submissions.csv on disk
    upload_dir,         \* the names of the files written under uploaded_work_samples
    has_df,             \* per session: 'submissions_df' in st.session_state
    submissions_df,     \* per session: st.session_state.submissions_df, a list of records
    portal_clock,       \* datetime.now(), in ticks
    portal_msgs,        \* the messages the portal's last script run showed
    written             \* history: the timestamps of the records an upload wrote to the file

forumVars == <<topics, posts, db_clock, current_view, selected_topic_id, username,
               topics_data, page, rerun_pending, submitted>>

portalVars == <<csv_file, upload_dir, has_df, submissions_df, portal_clock, portal_msgs,
               written>>

vars == <<forumVars, portalVars>>

(***************************************************************************)
(* Bounds of the model.                                                     *)
(***************************************************************************)
MaxTopics == 2
MaxPosts == 3
MaxInitRows == 2
MaxUploads == 2
MaxChat == 1
PortalInitRows == 1

NoneVal == "None"

\* uuid4().hex[:8] gives a fresh id for every insert: the n-th fresh id.
TopicIdPool == <<"topic_1", "topic_2", "topic_3", "topic_4", "topic_5", "topic_6">>
PostIdPool == <<"post_1", "post_2", "post_3", "post_4", "post_5", "post_6", "post_7">>
NewTopicId(n) == TopicIdPool[n]
NewPostId(n) == PostIdPool[n]

\* Text typed into a form, as a sequence of characters.
Whitespace == {" ", "\n"}
Titles == {<<>>, <<" ">>, <<"t">>}
TopicTexts == {<<>>, <<"\n", " ">>, <<"a">>}
ReplyTexts == {<<>>, <<" ">>, <<" ", "b">>}
Usernames == {<<>>, <<"u">>}

RECURSIVE lstrip(_)
lstrip(s) == IF s # <<>> /\ Head(s) \in Whitespace THEN lstrip(Tail(s)) ELSE s

RECURSIVE rstrip(_)
rstrip(s) ==
    IF s # <<>> /\ s[Len(s)] \in Whitespace THEN rstrip(SubSeq(s, 1, Len(s) - 1)) ELSE s

\* Mutant of strip: nothing trimmed.
strip_nothing(s) == s

\* str.strip()
strip(s) == rstrip(lstrip(s))

Max(a, b) == IF a >= b THEN a ELSE b

(***************************************************************************)
(* Forum data access: load_forum_data, save_topic, save_post.               *)
(***************************************************************************)
\* Mutant of order_asc: the posts fetched newest first.
order_asc_newest_first(rows) ==
    LET RECURSIVE walk(_)
        walk(left) ==
            IF left = {} THEN <<>>
            ELSE LET first == CHOOSE r \in left : \A q \in left : r.created_at >= q.created_at
                 IN  <<first>> \o walk(left \ {first})
    IN  walk(rows)

\* .order('created_at', desc=False): the rows, oldest first.
RECURSIVE order_asc(_)
order_asc(rows) ==
    IF rows = {} THEN <<>>
    ELSE LET first == CHOOSE r \in rows : \A q \in rows : r.created_at <= q.created_at
         IN  <<first>> \o order_asc(rows \ {first})

\* Mutant of order_desc: the topics fetched oldest first.
order_desc_oldest_first(rows) ==
    LET RECURSIVE walk(_)
        walk(left) ==
            IF left = {} THEN <<>>
            ELSE LET first == CHOOSE r \in left : \A q \in left : r.created_at <= q.created_at
                 IN  <<first>> \o walk(left \ {first})
    IN  walk(rows)

\* .order('created_at', desc=True): the rows, newest first.
RECURSIVE order_desc(_)
order_desc(rows) ==
    IF rows = {} THEN <<>>
    ELSE LET first == CHOOSE r \in rows : \A q \in rows : r.created_at >= q.created_at
         IN  <<first>> \o order_desc(rows \ {first})

\* The loop over posts_data: posts_by_topic, a function topic_id -> list of posts.
RECURSIVE group_posts(_, _)
group_posts(posts_data, posts_by_topic) ==
    IF posts_data = <<>> THEN posts_by_topic
    ELSE LET post == Head(posts_data)
             topic_id == post.topic_id
         IN  group_posts(Tail(posts_data),
                 IF topic_id # NoneVal
                 THEN IF topic_id \in DOMAIN posts_by_topic
                      THEN [posts_by_topic EXCEPT ![topic_id] = Append(@, post)]
                      ELSE posts_by_topic @@ (topic_id :> <<post>>)
                 ELSE posts_by_topic)

\* The loop over topics_data: each topic with its posts and its timestamp, in the
\* order of the fetch (the dict keeps insertion order).
attach_posts(topics_rows, posts_by_topic) ==
    [i \in 1..Len(topics_rows) |->
        [id |-> topics_rows[i].id,
         title |-> topics_rows[i].title,
         author |-> topics_rows[i].author,
         created_at |-> topics_rows[i].created_at,
         timestamp |-> topics_rows[i].created_at,
         posts |-> IF topics_rows[i].id \in DOMAIN posts_by_topic
                   THEN posts_by_topic[topics_rows[i].id] ELSE <<>>]]

\* load_forum_data(): the topics newest first, each with its posts oldest first;
\* the empty mapping when a fetch fails.
load_forum_data(fetch_ok, topic_rows, post_rows) ==
    IF fetch_ok
    THEN attach_posts(order_desc(topic_rows), group_posts(order_asc(post_rows), <<>>))
    ELSE <<>>

\* The keys of the mapping load_forum_data returns, and one of its values.
Keys(data) == {data[i].id : i \in DOMAIN data}
TopicOf(data, topic_id) == data[CHOOSE i \in DOMAIN data : data[i].id = topic_id]

\* save_topic / save_post: the outcome of the insert. "ok": the row is stored and
\* returned; "error": the client raised; "empty": the response held no row.
SaveOutcomes == {"ok", "error", "empty"}

\* Mutant of save_topic: the row is never stored.
save_topic_not_stored(outcome, topic_rows, topic_id, title, author, now) == topic_rows

save_topic(outcome, topic_rows, topic_id, title, author, now) ==
    IF outcome = "ok"
    THEN topic_rows \cup {[id |-> topic_id, title |-> title, author |-> author,
                           created_at |-> now]}
    ELSE topic_rows

save_post(outcome, post_rows, post_id, topic_id, author, content, now) ==
    IF outcome = "ok"
    THEN post_rows \cup {[id |-> post_id, topic_id |-> topic_id, author |-> author,
                          content |-> content, created_at |-> now]}
    ELSE post_rows

(***************************************************************************)
(* Forum view/controller: what one script run renders.                      *)
(***************************************************************************)
LoadErrorMsg == "Database error loading data"
NoTopicsInfo == "No topics yet, or failed to load topics. Be the first to create one!"
TopicNotFoundError == "Topic not found or failed to load!"
NoOriginalPostWarning == "Original post not found for this topic."
ReplyEmptyWarning == "Reply cannot be empty."
ReplySuccess == "Reply posted successfully!"
ReplyNeedsUsernameWarning == "Please enter your username in the sidebar to reply."
SavePostError == "Database error saving post"
SaveTopicError == "Database error saving topic"
UsernameRequiredError == "Error: Username is required to create a topic."
TitleEmptyWarning == "Topic title cannot be empty."
FirstPostEmptyWarning == "The first post cannot be empty."
TopicMetadataFailedError == "Failed to save topic metadata. Post was not saved."
TopicCreatedSuccess == "Topic created successfully!"
OrphanedTopicError == "Topic metadata was saved, but the initial post failed to save."

Views == {"list_topics", "view_thread", "create_topic"}

\* A script run that st.rerun() stopped in the sidebar, before the main area.
\* form_input is the text the user submitted with the form that caused the run.
StoppedPage(fired, user) ==
    [branch |-> "stopped", fired |-> fired, load |-> "not_run", msgs |-> {},
     create_enabled |-> user # <<>>, topic_buttons |-> {}, reply_counts |-> <<>>,
     op_panel |-> <<>>, replies |-> <<>>, reply_form |-> FALSE, topic_form |-> FALSE,
     back_button |-> FALSE, calls |-> <<>>, exception |-> "none", form_input |-> <<>>]

\* The main area starts after load_forum_data: its error message, if the load failed.
MainPage(branch, fetch_ok, user) ==
    [StoppedPage("none", user) EXCEPT
        !.branch = branch,
        !.load = IF fetch_ok THEN "ok" ELSE "failed",
        !.msgs = IF fetch_ok THEN {} ELSE {LoadErrorMsg}]

\* Mutant of reply_count: the count without the max(0, ...).
reply_count_unclamped(topic) == Len(topic.posts) - 1

\* reply_count = max(0, len(topic.get('posts', [])) - 1)
reply_count(topic) == Max(0, Len(topic.posts) - 1)

\* View: list_topics, rendered for the first n topics of the data (all of them,
\* unless a View Thread button stops the run at the n-th).
ListPage(data, n, fetch_ok, user) ==
    [MainPage("list_topics", fetch_ok, user) EXCEPT
        !.msgs = @ \cup (IF data = <<>> THEN {NoTopicsInfo} ELSE {}),
        !.topic_buttons = {data[i].id : i \in 1..n},
        !.reply_counts = [i \in 1..n |-> [id |-> data[i].id, count |-> reply_count(data[i])]]]

\* op_post = topic.get('posts', [])[0] if topic.get('posts') else None
op_post(topic_posts) ==
    IF topic_posts # <<>>
    THEN [panel |-> <<topic_posts[1]>>, exception |-> "none"]
    ELSE [panel |-> <<>>, exception |-> "none"]

\* replies = topic.get('posts', [])[1:]
replies_of(topic_posts) == IF topic_posts = <<>> THEN <<>> ELSE Tail(topic_posts)

\* View: view_thread, topic found.
ThreadPage(topic, fetch_ok, user) ==
    LET op == op_post(topic.posts) IN
    IF op.exception # "none"
    THEN [MainPage("view_thread", fetch_ok, user) EXCEPT !.exception = op.exception]
    ELSE [MainPage("view_thread", fetch_ok, user) EXCEPT
            !.op_panel = op.panel,
            !.replies = replies_of(topic.posts),
            !.reply_form = user # <<>>,
            !.msgs = @ \cup (IF op.panel = <<>> THEN {NoOriginalPostWarning} ELSE {})
                       \cup (IF user = <<>> THEN {ReplyNeedsUsernameWarning} ELSE {})]

\* Mutant of NotFoundPage: the fallback without its error message.
NotFoundPage_silent(fetch_ok, user) ==
    [MainPage("not_found", fetch_ok, user) EXCEPT !.back_button = TRUE]

\* View: view_thread, topic not in the data: the fallback to list_topics.
NotFoundPage(fetch_ok, user) ==
    [MainPage("not_found", fetch_ok, user) EXCEPT
        !.msgs = @ \cup {TopicNotFoundError},
        !.back_button = TRUE]

\* View: create_topic.
CreatePage(fetch_ok, user) ==
    [MainPage("create_topic", fetch_ok, user) EXCEPT
        !.topic_form = user # <<>>,
        !.msgs = @ \cup (IF user = <<>> THEN {UsernameRequiredError} ELSE {})]

\* The if / elif chain of the main area, no widget of it having fired: the view and
\* the selected topic the run leaves, and the page.
MainArea(data, fetch_ok, view, selected, user) ==
    IF view = "list_topics"
    THEN [view |-> view, selected |-> selected,
          page |-> ListPage(data, Len(data), fetch_ok, user)]
    ELSE IF view = "view_thread" /\ selected # NoneVal
    THEN IF selected \notin Keys(data)
         THEN [view |-> "list_topics", selected |-> NoneVal,
               page |-> NotFoundPage(fetch_ok, user)]
         ELSE [view |-> view, selected |-> selected,
               page |-> ThreadPage(TopicOf(data, selected), fetch_ok, user)]
    ELSE IF view = "create_topic"
    THEN [view |-> view, selected |-> selected, page |-> CreatePage(fetch_ok, user)]
    ELSE [view |-> view, selected |-> selected, page |-> MainPage("blank", fetch_ok, user)]

(***************************************************************************)
(* The forum's script runs: one action per user interaction.                *)
(***************************************************************************)
dbVars == <<topics, posts, db_clock, submitted>>

\* What a run leaves in the session and on the screen.
Finish(view, selected, pg, data, rerun) ==
    /\ current_view' = view
    /\ selected_topic_id' = selected
    /\ page' = pg
    /\ topics_data' = data
    /\ rerun_pending' = rerun

\* A run in which no button or form of the main area fires.
PlainRun(user, fetch_ok) ==
    LET data == load_forum_data(fetch_ok, topics, posts)
        r == MainArea(data, fetch_ok, current_view, selected_topic_id, user)
    IN  /\ Finish(r.view, r.selected, r.page, data, FALSE)
        /\ UNCHANGED dbVars

\* The run st.rerun() asked for (and the first run of the session).
Rerun ==
    /\ UNCHANGED portalVars
    /\ rerun_pending
    /\ \E fetch_ok \in BOOLEAN : PlainRun(username, fetch_ok)
    /\ UNCHANGED username

\* Sidebar: the username text input.
EnterUsername ==
    /\ UNCHANGED portalVars
    /\ ~rerun_pending
    /\ \E username_input \in Usernames, fetch_ok \in BOOLEAN :
          LET user == IF username_input # <<>> THEN username_input ELSE username
          IN  /\ username' = user
              /\ PlainRun(user, fetch_ok)

\* Sidebar: "View All Topics".
ClickViewAllTopics ==
    /\ UNCHANGED portalVars
    /\ ~rerun_pending
    /\ Finish("list_topics", NoneVal, StoppedPage("view_all_topics", username), <<>>, TRUE)
    /\ UNCHANGED <<dbVars, username>>

\* Sidebar: "Create New Topic", disabled without a username.
ClickCreateNewTopic ==
    /\ UNCHANGED portalVars
    /\ ~rerun_pending
    /\ page.create_enabled
    /\ username # <<>>
    /\ Finish("create_topic", NoneVal, StoppedPage("create_new_topic", username), <<>>, TRUE)
    /\ UNCHANGED <<dbVars, username>>

\* list_topics: the "View Thread" button of a topic the page shows.
ClickViewThread ==
    /\ UNCHANGED portalVars
    /\ ~rerun_pending
    /\ \E topic_id \in page.topic_buttons, fetch_ok \in BOOLEAN :
          LET data == load_forum_data(fetch_ok, topics, posts) IN
          IF current_view = "list_topics" /\ topic_id \in Keys(data)
          THEN LET n == CHOOSE i \in DOMAIN data : data[i].id = topic_id
               IN  /\ Finish("view_thread", topic_id,
                             [ListPage(data, n, fetch_ok, username) EXCEPT
                                 !.fired = "view_thread"],
                             data, TRUE)
                   /\ UNCHANGED dbVars
          ELSE PlainRun(username, fetch_ok)
    /\ UNCHANGED username

\* view_thread fallback: "Back to Topics List". The next run is in list_topics, where
\* the button does not exist: it only causes the run.
ClickBackToTopicsList ==
    /\ UNCHANGED portalVars
    /\ ~rerun_pending
    /\ page.back_button
    /\ \E fetch_ok \in BOOLEAN : PlainRun(username, fetch_ok)
    /\ UNCHANGED username

\* The record of one save_topic / save_post call of a run.
Call(fn, topic_id, outcome) == [fn |-> fn, topic_id |-> topic_id, outcome |-> outcome]

SaveErrorMsgs(outcome, msg) == IF outcome = "error" THEN {msg} ELSE {}

\* view_thread: the reply form's "Post Reply".
SubmitReply ==
    /\ UNCHANGED portalVars
    /\ ~rerun_pending
    /\ page.reply_form
    /\ \E fetch_ok \in BOOLEAN :
          LET data == load_forum_data(fetch_ok, topics, posts)
              r == MainArea(data, fetch_ok, current_view, selected_topic_id, username)
              topic_id == selected_topic_id
          IN  \E reply_content \in ReplyTexts :
                   IF ~r.page.reply_form
                   THEN \* the form is not part of this run: its submission is dropped
                        /\ Finish(r.view, r.selected,
                                  [r.page EXCEPT !.form_input = <<reply_content>>],
                                  data, FALSE)
                        /\ UNCHANGED dbVars
                   ELSE IF strip(reply_content) = <<>>
                   THEN /\ Finish(r.view, r.selected,
                                  [r.page EXCEPT !.fired = "post_reply",
                                                 !.form_input = <<reply_content>>,
                                                 !.msgs = @ \cup {ReplyEmptyWarning}],
                                  data, FALSE)
                        /\ UNCHANGED dbVars
                   ELSE \E outcome \in SaveOutcomes :
                        /\ Cardinality(posts) < MaxPosts
                        /\ posts' = save_post(outcome, posts, NewPostId(Cardinality(posts) + 1),
                                              topic_id, username, reply_content, db_clock)
                        /\ db_clock' = IF outcome = "ok" THEN db_clock + 1 ELSE db_clock
                        /\ submitted' =
                             IF outcome = "ok"
                             THEN [submitted EXCEPT ![topic_id] =
                                     Append(@, [kind |-> "reply", content |-> reply_content])]
                             ELSE submitted
                        /\ topics' = topics
                        /\ Finish(r.view, r.selected,
                                  [r.page EXCEPT
                                      !.fired = "post_reply",
                                      !.form_input = <<reply_content>>,
                                      !.calls = <<Call("save_post", topic_id, outcome)>>,
                                      !.msgs = @ \cup SaveErrorMsgs(outcome, SavePostError)
                                                 \cup (IF outcome = "ok"
                                                       THEN {ReplySuccess} ELSE {})],
                                  data, outcome = "ok")
    /\ UNCHANGED username

\* Mutant of after_save_msgs: success reported as soon as the topic row is saved.
after_save_msgs_early_success(topic_saved, post_saved) ==
    (IF ~topic_saved THEN {TopicMetadataFailedError} ELSE {TopicCreatedSuccess})
    \cup (IF topic_saved /\ ~post_saved THEN {OrphanedTopicError} ELSE {})

\* The messages of the new topic form after its saves: the else branch of step 2
\* and the branches of step 3.
after_save_msgs(topic_saved, post_saved) ==
    (IF ~topic_saved THEN {TopicMetadataFailedError} ELSE {})
    \cup (IF topic_saved /\ post_saved THEN {TopicCreatedSuccess}
          ELSE IF topic_saved /\ ~post_saved THEN {OrphanedTopicError}
          ELSE {})

\* Mutant of after_save_view: the orphaned-topic branch names a view that does not exist.
after_save_view_typo(topic_saved, post_saved, view) ==
    IF topic_saved /\ post_saved THEN "view_thread"
    ELSE IF topic_saved /\ ~post_saved THEN "list_topic"
    ELSE view

\* Mutant of after_save_view: the orphaned-topic branch goes to the thread view.
after_save_view_orphan_to_thread(topic_saved, post_saved, view) ==
    IF topic_saved THEN "view_thread" ELSE view

\* The view the new topic form leaves after its saves (step 3).
after_save_view(topic_saved, post_saved, view) ==
    IF topic_saved /\ post_saved THEN "view_thread"
    ELSE IF topic_saved /\ ~post_saved THEN "list_topics"
    ELSE view

\* The two-step save of the new topic form: save_topic, then save_post only if the
\* topic was saved; then the outcome handling.
SaveNewTopic(r, data, topic_title, topic_content, topic_outcome, post_outcome) ==
    LET new_topic_id == NewTopicId(Cardinality(topics) + 1)
        first_post_id == NewPostId(Cardinality(posts) + 1)
        topic_saved == topic_outcome = "ok"
        post_saved == topic_saved /\ post_outcome = "ok"
        calls == <<Call("save_topic", new_topic_id, topic_outcome)>>
                 \o (IF topic_saved
                     THEN <<Call("save_post", new_topic_id, post_outcome)>> ELSE <<>>)
        msgs == SaveErrorMsgs(topic_outcome, SaveTopicError)
                \cup (IF topic_saved THEN SaveErrorMsgs(post_outcome, SavePostError) ELSE {})
                \cup after_save_msgs(topic_saved, post_saved)
    IN  /\ Cardinality(topics) < MaxTopics
        /\ Cardinality(posts) < MaxPosts
        /\ topics' = save_topic(topic_outcome, topics, new_topic_id, topic_title,
                                username, db_clock)
        /\ posts' = IF topic_saved
                    THEN save_post(post_outcome, posts, first_post_id, new_topic_id,
                                   username, topic_content, db_clock + 1)
                    ELSE posts
        /\ db_clock' = db_clock + (IF topic_saved THEN 1 ELSE 0)
                                + (IF post_saved THEN 1 ELSE 0)
        /\ submitted' =
             IF topic_saved
             THEN submitted @@ (new_topic_id :>
                    (IF post_saved
                     THEN <<[kind |-> "op", content |-> topic_content]>>
                     ELSE <<>>))
             ELSE submitted
        /\ Finish(after_save_view(topic_saved, post_saved, r.view),
                  IF topic_saved /\ post_saved THEN new_topic_id ELSE r.selected,
                  [r.page EXCEPT !.fired = "create_topic",
                                 !.form_input = <<topic_title, topic_content>>,
                                 !.calls = calls,
                                 !.msgs = @ \cup msgs],
                  data, topic_saved)

\* create_topic: the new topic form's "Create Topic".
SubmitTopic ==
    /\ UNCHANGED portalVars
    /\ ~rerun_pending
    /\ page.topic_form
    /\ \E fetch_ok \in BOOLEAN :
          LET data == load_forum_data(fetch_ok, topics, posts)
              r == MainArea(data, fetch_ok, current_view, selected_topic_id, username)
          IN  IF ~r.page.topic_form
              THEN PlainRun(username, fetch_ok)
              ELSE \E topic_title \in Titles :
                   IF strip(topic_title) = <<>>
                   THEN \E topic_content \in TopicTexts :
                        /\ Finish(r.view, r.selected,
                                  [r.page EXCEPT !.fired = "create_topic",
                                                 !.form_input = <<topic_title, topic_content>>,
                                                 !.msgs = @ \cup {TitleEmptyWarning}],
                                  data, FALSE)
                        /\ UNCHANGED dbVars
                   ELSE \E topic_content \in TopicTexts :
                        IF strip(topic_content) = <<>>
                        THEN /\ Finish(r.view, r.selected,
                                       [r.page EXCEPT !.fired = "create_topic",
                                                      !.form_input = <<topic_title, topic_content>>,
                                                      !.msgs = @ \cup {FirstPostEmptyWarning}],
                                       data, FALSE)
                             /\ UNCHANGED dbVars
                        ELSE \/ \E topic_outcome \in SaveOutcomes \ {"ok"} :
                                  SaveNewTopic(r, data, topic_title, topic_content,
                                               topic_outcome, "ok")
                             \/ \E post_outcome \in SaveOutcomes :
                                  SaveNewTopic(r, data, topic_title, topic_content,
                                               "ok", post_outcome)
    /\ UNCHANGED username

(***************************************************************************)
(* Submission portal (src/main.py). Text is a sequence of characters.       *)
(***************************************************************************)
\* str.isalnum() of one character, for the characters the model types.
AlNum ==
    {"A", "B", "C", "D", "E", "F", "G", "H", "I", "J", "K", "L", "M", "N", "O", "P", "Q",
     "R", "S", "T", "U", "V", "W", "X", "Y", "Z", "a", "b", "c", "d", "e", "f", "g", "h",
     "i", "j", "k", "l", "m", "n", "o", "p", "q", "r", "s", "t", "u", "v", "w", "x", "y",
     "z", "0", "1", "2", "3", "4", "5", "6", "7", "8", "9"}

\* Mutant of safe_name: the other characters dropped instead of replaced.
safe_name_dropping(text) ==
    LET RECURSIVE keep(_)
        keep(t) == IF t = <<>> THEN <<>>
                   ELSE (IF Head(t) \in AlNum THEN <<Head(t)>> ELSE <<>>) \o keep(Tail(t))
    IN  keep(text)

\* "".join(c if c.isalnum() else "_" for c in text)
RECURSIVE safe_name(_)
safe_name(text) ==
    IF text = <<>> THEN <<>>
    ELSE <<IF Head(text) \in AlNum THEN Head(text) ELSE "_">> \o safe_name(Tail(text))

\* final_module[:20]
ModuleNameCut == 20
first_chars(text, n) == SubSeq(text, 1, IF Len(text) < n THEN Len(text) ELSE n)

\* str.rfind(ch): the last position of ch in text (1-based), 0 when absent.
rfind(text, ch) ==
    IF \E i \in DOMAIN text : text[i] = ch
    THEN CHOOSE i \in DOMAIN text : text[i] = ch /\ \A j \in DOMAIN text : text[j] = ch => j <= i
    ELSE 0

\* os.path.splitext(p)[1]: from the last dot of the last path component, unless
\* only dots precede it there.
RECURSIVE splitext_scan(_, _, _)
splitext_scan(p, filenameIndex, dotIndex) ==
    IF filenameIndex < dotIndex
    THEN IF p[filenameIndex] # "."
         THEN SubSeq(p, dotIndex, Len(p))
         ELSE splitext_scan(p, filenameIndex + 1, dotIndex)
    ELSE <<>>

splitext_ext(p) ==
    LET sepIndex == rfind(p, "/")
        dotIndex == rfind(p, ".")
    IN  IF dotIndex > sepIndex THEN splitext_scan(p, sepIndex + 1, dotIndex) ELSE <<>>

\* unique_filename = f"{timestamp_str}_{safe_learner_name}_{safe_module_name}{file_extension}"
unique_filename(timestamp_str, learner_name, final_module, original_filename) ==
    LET safe_learner_name == safe_name(learner_name)
        safe_module_name == safe_name(first_chars(final_module, ModuleNameCut))
        file_extension == splitext_ext(original_filename)
    IN  timestamp_str \o <<"_">> \o safe_learner_name \o <<"_">> \o safe_module_name
        \o file_extension

ClockStart == MaxInitRows + 1

UPLOAD_DIR == <<"uploaded_work_samples">>

\* os.path.join(UPLOAD_DIR, unique_filename)
save_path_of(file_name) == UPLOAD_DIR \o <<"/">> \o file_name

\* datetime.now().strftime("%Y%m%d_%H%M%S") at the n-th tick of the clock, one token.
StampPool == <<"20250412_015501", "20250412_015502", "20250412_015503", "20250412_015504",
               "20250412_015505", "20250412_015506", "20250412_015507", "20250412_015508">>
timestamp_str_at(now) == <<StampPool[now]>>

\* available_modules, and what the form's selectbox and text input can hold.
available_modules ==
    <<<<"M", "o", "d", "u", "l", "e", " ", "1", ":", " ", "B", "a", "s", "i",
        "c", " ", "W", "o", "o", "d", " ", "C", "a", "r", "v", "i", "n", "g",
        " ", "T", "e", "c", "h", "n", "i", "q", "u", "e", "s">>,
      <<"M", "o", "d", "u", "l", "e", " ", "2", ":", " ", "I", "n", "t", "r",
        "o", "d", "u", "c", "t", "i", "o", "n", " ", "t", "o", " ", "P", "o",
        "t", "t", "e", "r", "y", " ", "W", "h", "e", "e", "l">>,
      <<"T", "a", "s", "k", " ", "3", ".", "1", ":", " ", "S", "o", "l", "d",
        "e", "r", "i", "n", "g", " ", "P", "r", "a", "c", "t", "i", "c", "e">>,
      <<"P", "r", "o", "j", "e", "c", "t", " ", "A", "l", "p", "h", "a", ":",
        " ", "W", "e", "a", "v", "i", "n", "g", " ", "P", "a", "t", "t", "e",
        "r", "n", " ", "D", "e", "s", "i", "g", "n">>,
      <<"C", "u", "l", "t", "u", "r", "a", "l", " ", "P", "r", "a", "c", "t",
        "i", "c", "e", ":", " ", "T", "r", "a", "d", "i", "t", "i", "o", "n",
        "a", "l", " ", "K", "n", "o", "t", " ", "T", "y", "i", "n", "g", " ",
        "-", " ", "S", "t", "e", "p", " ", "1">>,
      <<"O", "t", "h", "e", "r">>>>

Other == available_modules[6]

\* pandas' missing value, and the cell texts read_csv takes for it.
NaN == <<"NaN">>
NaTexts == {<<>>, <<"N", "A">>, <<"N", "a", "N">>, <<"n", "a", "n">>,
            <<"N", "U", "L", "L">>, <<"n", "u", "l", "l">>}

\* read_csv of a text cell, to_csv of a text value.
read_cell(text) == IF text \in NaTexts THEN NaN ELSE text
write_cell(value) == IF value = NaN THEN <<>> ELSE value

\* to_csv of a datetime at tick n, and pd.to_datetime of that text.
IsoPool == <<"2025-04-12 01:55:01", "2025-04-12 01:55:02", "2025-04-12 01:55:03",
             "2025-04-12 01:55:04", "2025-04-12 01:55:05", "2025-04-12 01:55:06",
             "2025-04-12 01:55:07", "2025-04-12 01:55:08">>
write_timestamp(tick) == <<IsoPool[tick]>>
to_datetime(text) == CHOOSE tick \in DOMAIN IsoPool : <<IsoPool[tick]>> = text

Submitted == <<"S", "u", "b", "m", "i", "t", "t", "e", "d">>
Mentor == <<"M", "e", "n", "t", "o", "r">>

\* The tick at which the model's comments are sent.
CommentTick == 1

\* message_entry of add_chat_message.
ChatMessage(author, message, now) ==
    [author |-> author, message |-> message, timestamp |-> write_timestamp(now)]

\* A cell of the CSV's Chat column: the text of a JSON list ("json_list", with the
\* list it decodes to), text that starts with "[" and is not JSON ("bad_json"), any
\* other text ("not_list"), an empty cell ("nan"); "absent" where the file has no
\* Chat column.
ChatCell(kind, value) == [kind |-> kind, value |-> value]
NoChatCell == ChatCell("absent", <<>>)
ChatCells ==
    {ChatCell("json_list", <<ChatMessage(Mentor, <<"o", "k">>, CommentTick)>>),
     ChatCell("bad_json", <<>>), ChatCell("not_list", <<>>), ChatCell("nan", <<>>)}

\* The lambda applied to the Chat column: json.loads(x) if x is a str starting with
\* "[", else x if it is a list, else []. raised: json.loads raised JSONDecodeError.
decode_chat_cell(cell) ==
    IF cell.kind \in {"json_list", "bad_json"}
    THEN IF cell.kind = "json_list"
         THEN [raised |-> FALSE, value |-> cell.value]
         ELSE [raised |-> TRUE, value |-> <<>>]
    ELSE [raised |-> FALSE, value |-> <<>>]

DirError == "Error creating upload directory"
LoadWarning == "Issue loading submissions or chat history, initializing fresh state."
SaveCsvError == "Error saving submission record to CSV"
InvalidIndexError == "Could not add chat message: Invalid submission index."
NameWarning == "Please enter your name."
ModuleWarning == "Please select or specify the module/task."
FileWarning == "Please upload a file."
SubmitSuccess == "Success! Your work has been submitted."
SubmitError == "An error occurred during submission"
CommentWarning == "Please enter a comment before sending."

MissingFile == [state |-> "missing", has_chat |-> FALSE, rows |-> <<>>]
EmptyFile == [state |-> "empty", has_chat |-> FALSE, rows |-> <<>>]
TableFile(has_chat, rows) == [state |-> "table", has_chat |-> has_chat, rows |-> rows]

\* One row of the CSV as read_csv gives it to the session, its chat to be decoded.
read_row(row) ==
    [Timestamp |-> to_datetime(row.Timestamp),
     LearnerName |-> read_cell(row.LearnerName),
     ModuleTask |-> read_cell(row.ModuleTask),
     Filename |-> read_cell(row.Filename),
     FilePath |-> read_cell(row.FilePath),
     Status |-> read_cell(row.Status)]

WithChat(fields, chat) ==
    [Timestamp |-> fields.Timestamp, LearnerName |-> fields.LearnerName,
     ModuleTask |-> fields.ModuleTask, Filename |-> fields.Filename,
     FilePath |-> fields.FilePath, Status |-> fields.Status, Chat |-> chat]

\* initialize_app, the load of submissions.csv: the table the session starts with
\* and the messages shown. A missing file starts empty; an empty file, or a Chat cell
\* on which json.loads raises, gives the warning and a fresh empty table.
load_submissions(file) ==
    IF file.state = "missing" THEN [df |-> <<>>, msgs |-> {}]
    ELSE IF file.state = "empty" THEN [df |-> <<>>, msgs |-> {LoadWarning}]
    ELSE IF ~file.has_chat
    THEN [df |-> [i \in DOMAIN file.rows |-> WithChat(read_row(file.rows[i]), <<>>)],
          msgs |-> {}]
    ELSE IF \E i \in DOMAIN file.rows : decode_chat_cell(file.rows[i].Chat).raised
    THEN [df |-> <<>>, msgs |-> {LoadWarning}]
    ELSE [df |-> [i \in DOMAIN file.rows |->
                    WithChat(read_row(file.rows[i]),
                             decode_chat_cell(file.rows[i].Chat).value)],
          msgs |-> {}]

\* df.drop(columns=['Chat']).to_csv(...): one record as a row of the file.
write_row(record) ==
    [Timestamp |-> write_timestamp(record.Timestamp),
     LearnerName |-> write_cell(record.LearnerName),
     ModuleTask |-> write_cell(record.ModuleTask),
     Filename |-> write_cell(record.Filename),
     FilePath |-> write_cell(record.FilePath),
     Status |-> write_cell(record.Status),
     Chat |-> NoChatCell]

\* Mutant of save_submission_record: the rows of the file that the table does not
\* have are kept in front of the table's.
save_submission_record_merging(df, outcome, file) ==
    IF outcome = "ok"
    THEN LET mine == {write_timestamp(df[i].Timestamp) : i \in DOMAIN df}
             kept == SelectSeq(file.rows, LAMBDA row : row.Timestamp \notin mine)
         IN  TableFile(FALSE, kept \o [i \in DOMAIN df |-> write_row(df[i])])
    ELSE IF outcome = "open_failed" THEN file
    ELSE EmptyFile

\* Mutant of save_submission_record: the Chat column written with the rest.
save_submission_record_with_chat(df, outcome, file) ==
    IF outcome = "ok"
    THEN TableFile(TRUE, [i \in DOMAIN df |->
                            [write_row(df[i]) EXCEPT !.Chat = ChatCell("json_list", df[i].Chat)]])
    ELSE IF outcome = "open_failed" THEN file
    ELSE EmptyFile

\* save_submission_record(df): the file after the call. "ok": overwritten with the
\* table; "open_failed": to_csv raised before the file was touched; "write_failed":
\* to_csv raised after opening (truncating) it.
CsvOutcomes == {"ok", "open_failed", "write_failed"}

save_submission_record(df, outcome, file) ==
    IF outcome = "ok" THEN TableFile(FALSE, [i \in DOMAIN df |-> write_row(df[i])])
    ELSE IF outcome = "open_failed" THEN file
    ELSE EmptyFile

\* Mutant of add_submission_to_state: the new record put first.
add_submission_to_state_first(df, timestamp, learner_name, module_task, filename, file_path, status) ==
    <<[Timestamp |-> timestamp, LearnerName |-> learner_name,
       ModuleTask |-> module_task, Filename |-> filename,
       FilePath |-> file_path, Status |-> status, Chat |-> <<>>]>> \o df

\* add_submission_to_state: pd.concat of the table and the one new record.
add_submission_to_state(df, timestamp, learner_name, module_task, filename, file_path, status) ==
    Append(df, [Timestamp |-> timestamp, LearnerName |-> learner_name,
                ModuleTask |-> module_task, Filename |-> filename,
                FilePath |-> file_path, Status |-> status, Chat |-> <<>>])

\* Rows are numbered from 1 (the DataFrame's index from 0); no row selected is 0.
NoIndex == 0

\* add_chat_message: the table after the call, and whether the index was valid.
add_chat_message(df, submission_index, author, message, now) ==
    IF submission_index # NoIndex /\ submission_index \in DOMAIN df
    THEN [df |-> [df EXCEPT ![submission_index].Chat =
                     Append(@, ChatMessage(author, message, now))],
          msgs |-> {}]
    ELSE [df |-> df, msgs |-> {InvalidIndexError}]

(***************************************************************************)
(* The portal's script runs.                                                *)
(***************************************************************************)
Sessions == {"A", "B"}

\* The first script run of a session: initialize_app creates the upload directory
\* (st.stop() if it cannot) and loads submissions.csv into the session.
StartSession(s) ==
    /\ ~has_df[s]
    /\ \E dir_ok \in BOOLEAN :
          IF ~dir_ok
          THEN /\ portal_msgs' = {DirError}
               /\ UNCHANGED <<has_df, submissions_df>>
          ELSE LET loaded == load_submissions(csv_file)
               IN  /\ has_df' = [has_df EXCEPT ![s] = TRUE]
                   /\ submissions_df' = [submissions_df EXCEPT ![s] = loaded.df]
                   /\ portal_msgs' = loaded.msgs
    /\ UNCHANGED <<csv_file, upload_dir, portal_clock, written, forumVars>>

\* The session ends (the page is closed or the process restarts): its state is gone.
EndSession(s) ==
    /\ has_df[s]
    /\ has_df' = [has_df EXCEPT ![s] = FALSE]
    /\ submissions_df' = [submissions_df EXCEPT ![s] = <<>>]
    /\ portal_msgs' = {}
    /\ UNCHANGED <<csv_file, upload_dir, portal_clock, written, forumVars>>

NoFile == <<>>

\* The submission form's "Submit Work Sample" with the given field values.
SubmitForm(s, learner_name, selected_module_option, custom_module, uploaded_file) ==
    LET final_module == IF selected_module_option = Other
                        THEN custom_module ELSE selected_module_option
    IN  /\ has_df[s]
        /\ IF learner_name = <<>>
           THEN /\ portal_msgs' = {NameWarning}
                /\ UNCHANGED <<csv_file, upload_dir, submissions_df, portal_clock, written>>
           ELSE IF final_module = <<>>
           THEN /\ portal_msgs' = {ModuleWarning}
                /\ UNCHANGED <<csv_file, upload_dir, submissions_df, portal_clock, written>>
           ELSE IF uploaded_file = NoFile
           THEN /\ portal_msgs' = {FileWarning}
                /\ UNCHANGED <<csv_file, upload_dir, submissions_df, portal_clock, written>>
           ELSE LET stored == unique_filename(timestamp_str_at(portal_clock), learner_name,
                                              final_module, uploaded_file)
                    df == add_submission_to_state(submissions_df[s], portal_clock,
                              learner_name, final_module, uploaded_file,
                              save_path_of(stored), Submitted)
                IN  /\ portal_clock - ClockStart < MaxUploads
                    /\ \/ \* open(save_path, "wb") raised
                          /\ portal_msgs' = {SubmitError}
                          /\ UNCHANGED <<csv_file, upload_dir, submissions_df, portal_clock, written>>
                       \/ \E outcome \in CsvOutcomes :
                          /\ upload_dir' = upload_dir \cup {stored}
                          /\ submissions_df' = [submissions_df EXCEPT ![s] = df]
                          /\ csv_file' = save_submission_record(df, outcome, csv_file)
                          /\ portal_clock' = portal_clock + 1
                          /\ portal_msgs' = {SubmitSuccess}
                                \cup (IF outcome = "ok" THEN {} ELSE {SaveCsvError})
                          /\ written' = IF outcome = "ok"
                                        THEN written \cup {portal_clock} ELSE written
        /\ UNCHANGED <<has_df, forumVars>>

\* What the portal session types into the form.
LearnerInputs == {<<>>, <<"A", "n", "n">>}
CustomInputs == {<<"K", "n", "o", "t", "s">>}
FileInputs == {<<"a", ".", "p", "n", "g">>}

SubmitWorkSample(s) ==
    \E learner_name \in LearnerInputs, custom_module \in CustomInputs,
       uploaded_file \in FileInputs :
       SubmitForm(s, learner_name, Other, custom_module, uploaded_file)

\* The chat form's "Send Comment" for the submission selected in the selectbox.
CommentInputs == {<<>>, <<"o", "k">>}

RECURSIVE ChatCount(_)
ChatCount(df) == IF df = <<>> THEN 0 ELSE Len(Head(df).Chat) + ChatCount(Tail(df))

SendComment(s) ==
    /\ has_df[s]
    /\ \E selected_submission_index \in DOMAIN submissions_df[s],
          comment_text \in CommentInputs :
          IF comment_text # <<>>
          THEN LET r == add_chat_message(submissions_df[s], selected_submission_index,
                                         Mentor, comment_text, CommentTick)
               IN  /\ ChatCount(submissions_df["A"]) + ChatCount(submissions_df["B"]) < MaxChat
                   /\ submissions_df' = [submissions_df EXCEPT ![s] = r.df]
                   /\ portal_msgs' = r.msgs
          ELSE /\ portal_msgs' = {CommentWarning}
               /\ UNCHANGED submissions_df
    /\ UNCHANGED <<csv_file, upload_dir, has_df, portal_clock, written, forumVars>>

\* The files submissions.csv can be when the portal starts: none, an empty one, or a
\* table of up to MaxInitRows rows, with or without a Chat column.
InitRow(i, cell) ==
    [Timestamp |-> write_timestamp(i),
     LearnerName |-> IF i % 2 = 1 THEN <<"A", "n", "n">> ELSE <<"N", "A">>,
     ModuleTask |-> <<"K", "n", "o", "t", "s">>,
     Filename |-> <<"a", ".", "p", "n", "g">>,
     FilePath |-> save_path_of(<<"a", ".", "p", "n", "g">>),
     Status |-> Submitted,
     Chat |-> cell]

FilesWithoutChat ==
    {MissingFile, EmptyFile}
    \cup {TableFile(FALSE, [i \in 1..n |-> InitRow(i, NoChatCell)]) : n \in 0..PortalInitRows}

FilesWithChat ==
    UNION {{TableFile(TRUE, [i \in 1..n |-> InitRow(i, cells[i])]) :
              cells \in [1..n -> ChatCells]} : n \in 0..MaxInitRows}

PortalInit ==
    /\ csv_file \in FilesWithoutChat
    /\ upload_dir = {}
    /\ has_df = [s \in Sessions |-> FALSE]
    /\ submissions_df = [s \in Sessions |-> <<>>]
    /\ portal_clock = ClockStart
    /\ portal_msgs = {}
    /\ written = {}

PortalNext ==
    \/ \E s \in Sessions : StartSession(s)
    \/ \E s \in Sessions : EndSession(s)
    \/ \E s \in Sessions : SubmitWorkSample(s)
    \/ \E s \in Sessions : SendComment(s)

(***************************************************************************)
(* Specifications: the forum, the portal, and the portal's upload form with *)
(* the learner names, module labels and file names that decide the stored   *)
(* file name.                                                               *)
(***************************************************************************)
\* The application that a specification does not run.
ForumIdle ==
    /\ topics = {} /\ posts = {} /\ db_clock = 1 /\ submitted = <<>>
    /\ current_view = "list_topics" /\ selected_topic_id = NoneVal /\ username = <<>>
    /\ topics_data = <<>> /\ page = StoppedPage("none", <<>>) /\ rerun_pending = TRUE

PortalIdle ==
    /\ csv_file = MissingFile /\ upload_dir = {}
    /\ has_df = [s \in Sessions |-> FALSE]
    /\ submissions_df = [s \in Sessions |-> <<>>]
    /\ portal_clock = ClockStart
    /\ portal_msgs = {}
    /\ written = {}

ForumInit ==
    /\ topics = {}
    /\ posts = {}
    /\ db_clock = 1
    /\ submitted = <<>>
    /\ current_view = "list_topics"
    /\ selected_topic_id = NoneVal
    /\ username = <<>>
    /\ topics_data = <<>>
    /\ page = StoppedPage("none", <<>>)
    /\ rerun_pending = TRUE

ForumNext ==
    \/ Rerun
    \/ EnterUsername
    \/ ClickViewAllTopics
    \/ ClickCreateNewTopic
    \/ ClickViewThread
    \/ ClickBackToTopicsList
    \/ SubmitReply
    \/ SubmitTopic

Init == ForumInit /\ PortalIdle

Next == ForumNext

Spec == Init /\ [][Next]_vars


PortalSpecInit == PortalInit /\ ForumIdle

PortalSpec == PortalSpecInit /\ [][PortalNext]_vars

\* One session at a time over any submissions.csv, with or without a Chat column.
LoadInit ==
    /\ csv_file \in FilesWithoutChat \cup FilesWithChat
    /\ upload_dir = {}
    /\ has_df = [s \in Sessions |-> FALSE]
    /\ submissions_df = [s \in Sessions |-> <<>>]
    /\ portal_clock = ClockStart
    /\ portal_msgs = {}
    /\ written = {}
    /\ ForumIdle

LoadNext ==
    \/ StartSession("A")
    \/ EndSession("A")
    \/ SubmitWorkSample("A")
    \/ SendComment("A")

LoadSpec == LoadInit /\ [][LoadNext]_vars

\* The upload form of one session, once, over wide inputs.
WideLearners ==
    {<<>>, <<"A", "/", "B", "*", "C">>, <<"A", "n", "n", " ", "L", "e", "e", "2">>,
     <<".", ".", "/", "x">>}
WideCustoms == {<<>>, <<"K", "n", "o", "t", "s", " ", "&", " ", "C", "o">>}
WideFiles ==
    {NoFile, <<"a", ".", "p", "n", "g">>, <<"a", ".", "t", "a", "r", ".", "g", "z">>,
     <<".", "b", "a", "s", "h", "r", "c">>, <<"R", "E", "A", "D", "M", "E">>,
     <<"x", ".">>, <<".", ".", "h", ".", "J", "P", "G">>, <<"m", "y", " ", "f", ".", "m", "p", "4">>}

FirstUpload ==
    /\ upload_dir = {}
    /\ \E learner_name \in WideLearners,
          selected_module_option \in {available_modules[i] : i \in DOMAIN available_modules},
          custom_module \in WideCustoms, uploaded_file \in WideFiles :
          SubmitForm("A", learner_name, selected_module_option, custom_module, uploaded_file)

UploadNext ==
    \/ StartSession("A")
    \/ FirstUpload

UploadInit == PortalIdle /\ ForumIdle

UploadSpec == UploadInit /\ [][UploadNext]_vars

(***************************************************************************)
(* Forum claims.                                                            *)
(***************************************************************************)
Contents(post_list) == [i \in 1..Len(post_list) |-> post_list[i].content]

\* The page and topics_data of the last run show the store as it is now: the run
\* loaded successfully and saved nothing after loading.
PageIsCurrent == page.load = "ok" /\ ~rerun_pending

\* What C1 asks of a mapping returned for the stored rows.
GroupedAndOrdered(data, topic_rows, post_rows) ==
    /\ Len(data) = Cardinality(topic_rows)
    /\ Keys(data) = {t.id : t \in topic_rows}
    /\ \A i \in DOMAIN data : \E t \in topic_rows :
          t.id = data[i].id /\ t.title = data[i].title /\ t.created_at = data[i].created_at
    /\ \A i, j \in DOMAIN data : i < j => data[i].created_at >= data[j].created_at
    /\ \A i \in DOMAIN data :
          LET mine == {p \in post_rows : p.topic_id = data[i].id}
              listed == data[i].posts
          IN  /\ Len(listed) = Cardinality(mine)
              /\ {listed[k] : k \in DOMAIN listed} = mine
              /\ \A k, l \in DOMAIN listed :
                    k < l => listed[k].created_at <= listed[l].created_at

\* C1: when both fetches succeed, load_forum_data returns every stored topic, newest
\* first, each with exactly the stored posts of its topic_id, oldest first (none for
\* a topic without posts): both for a load of the store as it is and for the mapping
\* the last run loaded.
C1_LoadGroupsAndOrders ==
    /\ GroupedAndOrdered(load_forum_data(TRUE, topics, posts), topics, posts)
    /\ PageIsCurrent => GroupedAndOrdered(topics_data, topics, posts)

\* C1 witness: a run loaded two topics, the older with two posts and the newer
\* with one post created between them.
C1_Witness ==
    /\ PageIsCurrent
    /\ Len(topics_data) = 2
    /\ Len(topics_data[2].posts) = 2
    /\ Len(topics_data[1].posts) = 1
    /\ topics_data[2].posts[1].created_at < topics_data[1].posts[1].created_at
    /\ topics_data[1].posts[1].created_at < topics_data[2].posts[2].created_at

\* C2: for a topic whose creation succeeded, a load of the store returns the
\* original content first and the replies' contents after it, in the order they were
\* posted; the thread view of such a topic shows the first post as the original post
\* and the posts after it as the replies (one reply: the only reply).
C2_CreateThenReplyInOrder ==
    /\ \A topic_id \in DOMAIN submitted :
          LET data == load_forum_data(TRUE, topics, posts)
              said == submitted[topic_id]
          IN  (Len(said) >= 2 /\ said[1].kind = "op") =>
                 /\ topic_id \in Keys(data)
                 /\ Contents(TopicOf(data, topic_id).posts) = Contents(said)
    /\ (PageIsCurrent /\ page.branch = "view_thread") =>
          LET said == submitted[selected_topic_id]
          IN  (Len(said) >= 2 /\ said[1].kind = "op") =>
                 /\ Contents(page.op_panel) = <<said[1].content>>
                 /\ Contents(page.replies) = Tail(Contents(said))

\* C2 witness: the thread view after creating a topic with content "a" and
\* replying " b" shows "a" as the original post and " b" as the only reply.
C2_Witness ==
    /\ PageIsCurrent
    /\ page.branch = "view_thread"
    /\ submitted[selected_topic_id] = <<[kind |-> "op", content |-> <<"a">>],
                                        [kind |-> "reply", content |-> <<" ", "b">>]>>
    /\ Contents(page.op_panel) = <<<<"a">>>>
    /\ Contents(page.replies) = <<<<" ", "b">>>>

\* The last run was a topic creation whose save_topic succeeded and whose save_post
\* for the first post failed.
OrphanedByLastRun ==
    /\ page.fired = "create_topic"
    /\ page.calls # <<>>
    /\ page.calls[1] = Call("save_topic", page.calls[1].topic_id, "ok")
    /\ \E i \in DOMAIN page.calls :
          page.calls[i].fn = "save_post" /\ page.calls[i].outcome # "ok"

\* C3: after such a run the orphaned-topic error is on the page and the success
\* message is not, the view is not view_thread and the new topic is not selected, the
\* topic row is stored with no post, and the run made exactly one save_topic and one
\* save_post call.
C3_OrphanedTopicReported ==
    OrphanedByLastRun =>
        LET new_topic_id == page.calls[1].topic_id IN
        /\ OrphanedTopicError \in page.msgs
        /\ TopicCreatedSuccess \notin page.msgs
        /\ current_view = "list_topics"
        /\ selected_topic_id # new_topic_id
        /\ \E t \in topics : t.id = new_topic_id
        /\ ~\E p \in posts : p.topic_id = new_topic_id
        /\ Len(page.calls) = 2
        /\ page.calls[2].fn = "save_post"

\* C3 witness: a run that orphaned a topic, the post insert having raised.
C3_Witness ==
    /\ OrphanedByLastRun
    /\ page.calls[2].outcome = "error"
    /\ SavePostError \in page.msgs

\* C4: the topic list shows max(0, n - 1) replies for a topic with n posts (0 for
\* none, never negative); the thread view of a topic without posts shows no original
\* post and no replies; no run raises by indexing the empty list.
C4_EmptyTopicRendersSafely ==
    /\ page.exception = "none"
    /\ page.branch = "list_topics" =>
          \A i \in DOMAIN page.reply_counts :
             LET n == Len(topics_data[i].posts)
                 shown == page.reply_counts[i]
             IN  /\ shown.id = topics_data[i].id
                 /\ shown.count >= 0
                 /\ n = 0 => shown.count = 0
                 /\ n >= 1 => shown.count = n - 1
    /\ (page.branch = "view_thread"
        /\ TopicOf(topics_data, selected_topic_id).posts = <<>>) =>
          /\ page.op_panel = <<>>
          /\ page.replies = <<>>
          /\ NoOriginalPostWarning \in page.msgs

\* C4 witness: the thread view of an orphaned topic.
C4_Witness ==
    /\ page.branch = "view_thread"
    /\ TopicOf(topics_data, selected_topic_id).posts = <<>>
    /\ page.op_panel = <<>>

\* C4 witness of the list: a topic without posts beside a topic with a reply.
C4_ListWitness ==
    /\ page.branch = "list_topics"
    /\ \E i, j \in DOMAIN page.reply_counts :
          /\ Len(topics_data[i].posts) = 0 /\ page.reply_counts[i].count = 0
          /\ Len(topics_data[j].posts) = 2 /\ page.reply_counts[j].count = 1

\* C9: a run that reaches the main area in view_thread with a selected topic id that
\* is not a key of the data it loaded reports the error, sets the view to
\* list_topics, clears the selected id, and renders no thread and no reply form.
C9_MissingTopicFallsBack ==
    [][(page'.load # "not_run"
        /\ current_view = "view_thread"
        /\ selected_topic_id \notin Keys(topics_data'))
       => /\ TopicNotFoundError \in page'.msgs
          /\ current_view' = "list_topics"
          /\ selected_topic_id' = NoneVal
          /\ page'.op_panel = <<>>
          /\ page'.replies = <<>>
          /\ ~page'.reply_form]_vars

\* C9 witness: the fallback has run, the load having failed.
C9_Witness ==
    /\ page.branch = "not_found"
    /\ page.load = "failed"
    /\ topics_data = <<>>
    /\ current_view = "list_topics"

\* The buttons and forms whose handlers set the view.
ViewActions == {"view_all_topics", "create_new_topic", "view_thread", "create_topic"}

\* C10 as claimed: the view is one of the three, and it changes only in a run in
\* which a button or form fired.
C10_ViewChangesOnlyByUserAction ==
    /\ [](current_view \in Views)
    /\ [][current_view' # current_view => page'.fired \in ViewActions]_vars

\* C10 amended: the view is one of the three, and it changes only in a run in which
\* a button or form fired or in a run that took the view_thread fallback (the
\* selected topic missing from the loaded data), which sets list_topics.
C10_ViewChangesByActionOrFallback ==
    /\ [](current_view \in Views)
    /\ [][current_view' # current_view =>
            \/ page'.fired \in ViewActions
            \/ /\ page'.branch = "not_found"
               /\ current_view = "view_thread"
               /\ current_view' = "list_topics"]_vars

\* C10 witness: the view after the fallback changed it in a run where nothing fired.
C10_Witness ==
    /\ page.branch = "not_found"
    /\ page.fired = "none"
    /\ current_view = "list_topics"

(***************************************************************************)
(* Portal claims.                                                           *)
(***************************************************************************)
\* The step is session s's first run: initialize_app loads the file.
Loads(s) == ~has_df[s] /\ has_df'[s]

\* The step is an accepted upload of session s: its table gains a record.
Uploads(s) == has_df[s] /\ has_df'[s] /\ Len(submissions_df'[s]) = Len(submissions_df[s]) + 1

\* The step changes a chat list of session s.
Comments(s) ==
    /\ has_df[s] /\ has_df'[s]
    /\ Len(submissions_df'[s]) = Len(submissions_df[s])
    /\ submissions_df'[s] # submissions_df[s]

\* The row of the file shows the record, without its chat.
RowShows(row, record) ==
    /\ row.Timestamp = write_timestamp(record.Timestamp)
    /\ row.LearnerName = (IF record.LearnerName = NaN THEN <<>> ELSE record.LearnerName)
    /\ row.ModuleTask = record.ModuleTask
    /\ row.Filename = record.Filename
    /\ row.FilePath = record.FilePath
    /\ row.Status = record.Status
    /\ row.Chat = NoChatCell

\* The file holds exactly the records of the table, in order, and no Chat column.
FileShows(file, df) ==
    /\ file.state = "table"
    /\ ~file.has_chat
    /\ Len(file.rows) = Len(df)
    /\ \A i \in DOMAIN df : RowShows(file.rows[i], df[i])

\* C5: the file never holds chat data (no Chat column, no chat cell); a step that
\* changes a chat list leaves the file as it is; and a session that loads the file
\* gets one record per row of it, each with an empty chat list, and at most the
\* handled warning of an empty file.
C5_ChatNeverPersisted ==
    /\ [](/\ ~csv_file.has_chat
          /\ \A i \in DOMAIN csv_file.rows : csv_file.rows[i].Chat = NoChatCell)
    /\ [][\A s \in Sessions : Comments(s) => csv_file' = csv_file]_vars
    /\ [][\A s \in Sessions : Loads(s) =>
            /\ Len(submissions_df'[s]) = Len(csv_file.rows)
            /\ \A i \in DOMAIN submissions_df'[s] :
                  /\ submissions_df'[s][i].Chat = <<>>
                  /\ submissions_df'[s][i].Timestamp = to_datetime(csv_file.rows[i].Timestamp)
            /\ portal_msgs' \subseteq {LoadWarning}
            /\ LoadWarning \in portal_msgs' => csv_file.state = "empty"]_vars

\* C5 witness: one session holds a comment on a record that the file and the other
\* session, which holds the same record, do not have.
C5_Witness ==
    /\ has_df["A"] /\ has_df["B"]
    /\ csv_file.state = "table"
    /\ Len(csv_file.rows) >= 1
    /\ Len(submissions_df["B"]) = Len(csv_file.rows)
    /\ Len(submissions_df["A"]) >= 1
    /\ submissions_df["A"][1].Chat # <<>>
    /\ submissions_df["B"][1].Chat = <<>>
    /\ submissions_df["B"][1].Timestamp = submissions_df["A"][1].Timestamp
    /\ csv_file.rows[1].Chat = NoChatCell

\* What C8 asks of the session's table in an accepted upload: one record more, at
\* the end, with the upload's fields and an empty chat; the others as they were.
AppendsOne(s) ==
    LET old == submissions_df[s]
        new == submissions_df'[s]
        added == new[Len(new)]
    IN  /\ SubSeq(new, 1, Len(old)) = old
        /\ added.Chat = <<>>
        /\ added.Timestamp = portal_clock
        /\ added.Status = Submitted
        /\ added.LearnerName \in LearnerInputs \ {<<>>}
        /\ added.ModuleTask \in CustomInputs
        /\ added.Filename \in FileInputs
        /\ \E stored \in upload_dir' : added.FilePath = save_path_of(stored)

Corrupt(cell) == cell.kind \in {"bad_json", "not_list"}

\* C7 as claimed: loading a file with corrupt chat cells keeps every row, its other
\* fields as read and its chat if valid, resets the corrupt cells to the empty list,
\* and warns.
C7_CorruptCellsResetOnly ==
    [][(/\ Loads("A")
        /\ csv_file.state = "table"
        /\ csv_file.has_chat
        /\ \E i \in DOMAIN csv_file.rows : Corrupt(csv_file.rows[i].Chat))
       => LET df == submissions_df'["A"] IN
          /\ Len(df) = Len(csv_file.rows)
          /\ \A i \in DOMAIN df :
                /\ df[i].Timestamp = to_datetime(csv_file.rows[i].Timestamp)
                /\ df[i].ModuleTask = csv_file.rows[i].ModuleTask
                /\ df[i].Filename = csv_file.rows[i].Filename
                /\ df[i].FilePath = csv_file.rows[i].FilePath
                /\ df[i].Status = csv_file.rows[i].Status
                /\ csv_file.rows[i].Chat.kind = "json_list" =>
                      df[i].Chat = csv_file.rows[i].Chat.value
                /\ Corrupt(csv_file.rows[i].Chat) => df[i].Chat = <<>>
          /\ LoadWarning \in portal_msgs']_vars

(***************************************************************************)
(* Upload claims.                                                           *)
(***************************************************************************)
\* Every character that is not a letter or digit replaced by one underscore.
Underscored(text) == [i \in 1..Len(text) |-> IF text[i] \in AlNum THEN text[i] ELSE "_"]

\* The extension of a file name: from its last dot on, when that dot is in the base
\* name and some character of the base name before it is not a dot.
ExtensionOf(name) ==
    LET dots == {i \in DOMAIN name : name[i] = "."}
        seps == {i \in DOMAIN name : name[i] = "/"}
        base == IF seps = {} THEN 1
                ELSE 1 + CHOOSE i \in seps : \A j \in seps : j <= i
    IN  IF dots = {} THEN <<>>
        ELSE LET d == CHOOSE i \in dots : \A j \in dots : j <= i
             IN  IF d >= base /\ \E j \in base..(d - 1) : name[j] # "."
                 THEN SubSeq(name, d, Len(name)) ELSE <<>>

\* The record of the upload that stored the file.
UploadOf(stored) ==
    LET df == submissions_df["A"]
    IN  df[CHOOSE i \in DOMAIN df : df[i].FilePath = save_path_of(stored)]

Prefix(text, n) == [i \in 1..(IF Len(text) < n THEN Len(text) ELSE n) |-> text[i]]

\* C6 as claimed: the stored name is the timestamp, the underscored learner name, the
\* underscored module label and the original extension, joined by underscores.
C6_StoredNameFromWholeLabel ==
    \A stored \in upload_dir :
       LET up == UploadOf(stored) IN
       stored = <<StampPool[up.Timestamp]>> \o <<"_">> \o Underscored(up.LearnerName)
                \o <<"_">> \o Underscored(up.ModuleTask) \o ExtensionOf(up.Filename)

\* C6 amended: the same, with the underscored first 20 characters of the module label.
C6_StoredNameFromLabelPrefix ==
    \A stored \in upload_dir :
       LET up == UploadOf(stored) IN
       stored = <<StampPool[up.Timestamp]>> \o <<"_">> \o Underscored(up.LearnerName)
                \o <<"_">> \o Underscored(Prefix(up.ModuleTask, 20))
                \o ExtensionOf(up.Filename)

\* C6 witness: "A/B*C" uploading a.tar.gz for a module label longer than 20
\* characters is stored as <timestamp>_A_B_C_<20 characters>.gz.
C6_Witness ==
    \E stored \in upload_dir :
       /\ UploadOf(stored).LearnerName = <<"A", "/", "B", "*", "C">>
       /\ UploadOf(stored).Filename = <<"a", ".", "t", "a", "r", ".", "g", "z">>
       /\ Len(UploadOf(stored).ModuleTask) > 20
       /\ SubSeq(stored, 2, 8) = <<"_", "A", "_", "B", "_", "C", "_">>
       /\ Len(stored) = 8 + 20 + 3
       /\ SubSeq(stored, 29, 31) = <<".", "g", "z">>

(***************************************************************************)
(* Claims about two portal sessions sharing the file.                       *)
(***************************************************************************)
\* The timestamps of the rows of the file, and of the records of a table.
FileStamps(file) == {to_datetime(file.rows[i].Timestamp) : i \in DOMAIN file.rows}

TableStamps(df) == {df[i].Timestamp : i \in DOMAIN df}

\* "A record once written to the file stays in the file."
WrittenStays == written \subseteq FileStamps(csv_file)

\* C11: a session's table gains a record only by that session's own upload, never
\* another session's record; and an upload whose write succeeds leaves in the file the
\* records of the uploading session's table and no others, so that a record written
\* by another session after this one loaded is no longer in the file.
C11_WritersOverwriteEachOther ==
    /\ [][\A s \in Sessions : (has_df[s] /\ has_df'[s]) =>
            /\ TableStamps(submissions_df'[s]) \ TableStamps(submissions_df[s])
                  \subseteq {portal_clock}
            /\ TableStamps(submissions_df'[s]) # TableStamps(submissions_df[s]) =>
                  /\ Uploads(s)
                  /\ \A t \in Sessions \ {s} : submissions_df'[t] = submissions_df[t]]_vars
    /\ [][\A s \in Sessions : (Uploads(s) /\ SaveCsvError \notin portal_msgs') =>
            /\ FileStamps(csv_file') = TableStamps(submissions_df'[s])
            /\ \A w \in written : w \notin TableStamps(submissions_df[s]) =>
                  w \notin FileStamps(csv_file')]_vars

\* C11 witness: the record that session A wrote to the file is not in the file after
\* session B, whose table never had it, wrote its own later record.
C11_Witness ==
    /\ has_df["A"] /\ has_df["B"]
    /\ ~WrittenStays
    /\ \E a \in written :
          /\ a \in TableStamps(submissions_df["A"])
          /\ a \notin TableStamps(submissions_df["B"])
          /\ a \notin FileStamps(csv_file)
          /\ \E b \in written :
                /\ b > a
                /\ b \in TableStamps(submissions_df["B"])
                /\ b \in FileStamps(csv_file)
    /\ FileShows(csv_file, submissions_df["B"])

(***************************************************************************)
(* Claims about the forum's forms and store.                                *)
(***************************************************************************)
\* The text is empty once its whitespace is trimmed: it has no other character.
Blank(text) == \A i \in DOMAIN text : text[i] \in Whitespace

\* The step is the run for a submitted reply, or new topic, with a blank required text.
BlankReplySubmitted == Len(page'.form_input) = 1 /\ Blank(page'.form_input[1])

BlankTopicSubmitted ==
    /\ Len(page'.form_input) = 2
    /\ Blank(page'.form_input[1]) \/ Blank(page'.form_input[2])

\* The warning of the first blank required text.
BlankWarning ==
    IF Len(page'.form_input) = 1 THEN ReplyEmptyWarning
    ELSE IF Blank(page'.form_input[1]) THEN TitleEmptyWarning
    ELSE FirstPostEmptyWarning

\* The run warned, called no save function, and left the store, the view and the
\* selected topic as they were.
RejectedUnchanged ==
    /\ BlankWarning \in page'.msgs
    /\ page'.calls = <<>>
    /\ topics' = topics /\ posts' = posts /\ db_clock' = db_clock
    /\ current_view' = current_view
    /\ selected_topic_id' = selected_topic_id

\* C12 as claimed: every submission with a blank required text is rejected with its
\* warning, no save call, and the store, view and selected topic unchanged.
C12_BlankSubmissionRejected ==
    [][(BlankReplySubmitted \/ BlankTopicSubmitted) => RejectedUnchanged]_vars

\* C12 amended: the same for every blank new topic, and for every blank reply whose
\* run finds the selected topic in the data it loaded (otherwise the thread and its
\* form are not rendered and the run falls back to the topic list).
C12_BlankSubmissionRejectedWhenFormRuns ==
    [][(\/ BlankTopicSubmitted
        \/ BlankReplySubmitted /\ selected_topic_id \in Keys(topics_data'))
       => RejectedUnchanged]_vars

\* C12 witness: a reply of one space was rejected in a thread that has posts.
C12_Witness ==
    /\ page.fired = "post_reply"
    /\ page.form_input = << <<" ">> >>
    /\ ReplyEmptyWarning \in page.msgs
    /\ page.calls = <<>>
    /\ current_view = "view_thread"
    /\ selected_topic_id \in {p.topic_id : p \in posts}

\* The ids of the stored topics.
StoredTopicIds == {t.id : t \in topics}

\* The post is the first post of a topic that the same run saved just before it.
FirstPostAfterTopicSaved(p) ==
    /\ page'.calls = <<Call("save_topic", p.topic_id, "ok"), Call("save_post", p.topic_id, "ok")>>
    /\ p.topic_id \in {t.id : t \in topics' \ topics}

\* The post is a reply to a topic of the data the same run loaded.
ReplyToLoadedTopic(p) ==
    /\ page'.calls = <<Call("save_post", p.topic_id, "ok")>>
    /\ p.topic_id \in Keys(topics_data')
    /\ p.topic_id \in StoredTopicIds

\* The run called save_topic and it did not return success.
SaveTopicFailed ==
    /\ page'.calls # <<>>
    /\ page'.calls[1].fn = "save_topic"
    /\ page'.calls[1].outcome # "ok"

\* C13: every stored post references a stored topic; a step stores a post only as
\* the first post of a topic saved just before it in the same run or as a reply to a
\* topic of the data loaded in the same run; a failed save_topic is the run's only
\* call and stores nothing; and no step removes or changes a stored topic or post.
C13_PostsReferenceStoredTopics ==
    /\ [](\A p \in posts : p.topic_id \in StoredTopicIds)
    /\ [][/\ topics \subseteq topics'
          /\ posts \subseteq posts'
          /\ \A p \in posts' \ posts : FirstPostAfterTopicSaved(p) \/ ReplyToLoadedTopic(p)
          /\ SaveTopicFailed =>
                /\ Len(page'.calls) = 1
                /\ topics' = topics
                /\ posts' = posts]_vars

\* C13 witness: a stored topic with its first post and a reply just saved.
C13_Witness ==
    /\ page.calls = <<Call("save_post", selected_topic_id, "ok")>>
    /\ selected_topic_id \in StoredTopicIds
    /\ Cardinality({p \in posts : p.topic_id = selected_topic_id}) >= 2

\* C14: the selected topic id is set exactly when the view is view_thread, and no run
\* reaches the end of the view chain without rendering a view.
C14_SelectedIffThreadView ==
    /\ (selected_topic_id # NoneVal) <=> (current_view = "view_thread")
    /\ page.branch # "blank"
    /\ current_view \in Views

\* C14 witness: back in the topic list with no selected topic after the new topic
\* form saved a topic without its first post.
C14_Witness ==
    /\ OrphanedTopicError \in page.msgs
    /\ current_view = "list_topics"
    /\ selected_topic_id = NoneVal
    /\ topics # {}

\* C14 witness: a thread rendered for the selected topic.
C14_ThreadWitness ==
    /\ current_view = "view_thread"
    /\ selected_topic_id \in Keys(topics_data)
    /\ page.branch = "view_thread"
    /\ ~rerun_pending

====
